---- MODULE Spec2Model ----
(***************************************************************************)
(* A model of latticequeries.rs: the lattice algebra (lattices.rs), the    *)
(* HiVec summary pyramid (hivecs.rs) and the HiQuery search (hiqueries.rs).*)
(*                                                                         *)
(* Indices are 0-based as in the source; TLA+ sequences are 1-based, so    *)
(* element i of a Vec v is v[i + 1].  The HiVec element type T is          *)
(* instantiated with a totally ordered integer type (bool, u32 and i32 in  *)
(* the crate's tests), whose Lattice is the blanket impl over Ord.  The    *)
(* FreeL32 / FreeL64 bitset lattices are modelled bit by bit.              *)
(***************************************************************************)
EXTENDS Integers, Sequences, FiniteSets, TLC

VARIABLES hiv, status, lastop, fs, lat

vars == <<hiv, status, lastop, fs, lat>>

(***************************************************************************)
(* Bounds of the model.                                                    *)
(***************************************************************************)
MaxLen == 4
MaxElem == 1
MaxN == 2
MaxFanout == 3
MaxAtoms == 2

Elems == 0..MaxElem

(***************************************************************************)
(* lattices.rs: impl<T: Ord> Lattice for T                                 *)
(***************************************************************************)
join(a, b) == IF a >= b THEN a ELSE b

meet(a, b) == IF a <= b THEN a ELSE b

\* PartialOrd::ge of a totally ordered T
ge(a, b) == a >= b

(***************************************************************************)
(* lattices.rs: LatticeRange<T>                                            *)
(***************************************************************************)
LatticeRange_new(top, bottom) == [top |-> top, bottom |-> bottom]

singleton(x) == [top |-> x, bottom |-> x]

isempty(r) == ge(r.top, r.bottom)

contains(r, x) == ge(r.top, x) /\ ge(r.bottom, x)

expandby(r, x) == [top |-> join(r.top, x), bottom |-> meet(r.bottom, x)]

unite(r, o) == [top |-> join(r.top, o.top), bottom |-> meet(r.bottom, o.bottom)]

intersect(r, o) == [top |-> meet(r.top, o.top), bottom |-> join(r.bottom, o.bottom)]

(***************************************************************************)
(* Slices: <[T]>::chunks and Iterator::reduce / fold, as HiVec uses them.  *)
(***************************************************************************)
CeilDiv(n, d) == (n + d - 1) \div d

\* s.chunks(F): consecutive chunks of F elements, the last one possibly short
chunks(s, F) ==
    [b \in 1..CeilDiv(Len(s), F) |->
        SubSeq(s, (b - 1) * F + 1, IF b * F <= Len(s) THEN b * F ELSE Len(s))]

\* s[lo ..= hi] with 0-based inclusive bounds (the caller checks hi < len)
slice(s, lo, hi) == SubSeq(s, lo + 1, hi + 1)

RECURSIVE reduce_meet(_)
reduce_meet(c) ==
    IF Len(c) = 1 THEN c[1]
    ELSE meet(reduce_meet(SubSeq(c, 1, Len(c) - 1)), c[Len(c)])

RECURSIVE reduce_unite(_)
reduce_unite(c) ==
    IF Len(c) = 1 THEN c[1]
    ELSE unite(reduce_unite(SubSeq(c, 1, Len(c) - 1)), c[Len(c)])

\* fold(None, |r, e| Some(match r { Some(r) => r.expandby(e), None => singleton(e) }))
RECURSIVE fold_expandby(_)
fold_expandby(c) ==
    IF Len(c) = 1 THEN singleton(c[1])
    ELSE expandby(fold_expandby(SubSeq(c, 1, Len(c) - 1)), c[Len(c)])

(***************************************************************************)
(* hivecs.rs: HiVec<T, N, FANOUT>.  N and FANOUT are const generics; the   *)
(* model carries them in the value.                                        *)
(***************************************************************************)
\* The layer-0 summary HiVec::new computes for one chunk of the table
new_range(chunk) == LatticeRange_new(reduce_meet(chunk), reduce_meet(chunk))

new_layer0(table, F) ==
    LET cs == chunks(table, F) IN [b \in 1..Len(cs) |-> new_range(cs[b])]

next_layer(prev, F) ==
    LET cs == chunks(prev, F) IN [b \in 1..Len(cs) |-> reduce_unite(cs[b])]

\* layers after the loop `for l in 1..N` has pushed layers 1 .. l
RECURSIVE new_layers(_, _, _)
new_layers(table, F, l) ==
    IF l = 0 THEN <<new_layer0(table, F)>>
    ELSE LET ls == new_layers(table, F, l - 1)
         IN  Append(ls, next_layer(ls[Len(ls)], F))

HiVec_new(N, F, table) ==
    [N |-> N, FANOUT |-> F, table |-> table,
     layers |-> new_layers(table, F, IF N >= 1 THEN N - 1 ELSE 0)]

len(h) == Len(h.table)

AlignDown(x, F) == x - (x % F)

AlignUp(x, F) == x - (x % F) + F - 1

\* overwrite layer[s + i] = rs[i + 1] for every i
write_at(layer, s, rs) ==
    [b \in 1..Len(layer) |->
        IF b - 1 >= s /\ b - 1 < s + Len(rs) THEN rs[b - s] ELSE layer[b]]

\* The loop `for n in 1..N` of repair_invariant from layer n on, with the
\* (unaligned) window lo ..= hi over layer n-1.  A slice whose end is past
\* the layer panics; what was written before stays written.
RECURSIVE repair_upper(_, _, _, _, _, _)
repair_upper(layers, N, F, n, lo, hi) ==
    IF n >= N THEN [panic |-> FALSE, layers |-> layers]
    ELSE LET a == AlignDown(lo, F)
             b == AlignUp(hi, F)
         IN  IF b + 1 > Len(layers[n])
             THEN [panic |-> TRUE, layers |-> layers]
             ELSE LET cs == chunks(slice(layers[n], a, b), F)
                      rs == [k \in 1..Len(cs) |-> reduce_unite(cs[k])]
                      s  == a \div F
                      w  == [layers EXCEPT ![n + 1] = write_at(@, s, rs)]
                  IN  repair_upper(w, N, F, n + 1, s, (b + 1) \div F)

repair_invariant(h, lo, hi) ==
    LET F == h.FANOUT
        a == AlignDown(lo, F)
        b == AlignUp(hi, F)
    IN  IF b + 1 > Len(h.table)
        THEN [panic |-> TRUE, hiv |-> h]
        ELSE LET cs == chunks(slice(h.table, a, b), F)
                 rs == [k \in 1..Len(cs) |-> fold_expandby(cs[k])]
                 s  == a \div F
                 w  == [h.layers EXCEPT ![1] = write_at(@, s, rs)]
                 up == repair_upper(w, h.N, F, 1, s, (b + 1) \div F)
             IN  [panic |-> up.panic, hiv |-> [h EXCEPT !.layers = up.layers]]

\* mutate(i, f), f being "store v": table.get_mut(i).map(f), then the repair
mutate(h, i, v) ==
    LET t == IF i < Len(h.table) THEN [h.table EXCEPT ![i + 1] = v] ELSE h.table
    IN  repair_invariant([h EXCEPT !.table = t], i, i)

(***************************************************************************)
(* Results.  A call either returns a value or panics (expect / assert_eq / *)
(* an index out of bounds).  Option<usize> is [some, idx].                 *)
(***************************************************************************)
Ret(v) == [panic |-> FALSE, val |-> v]

Panicked == [panic |-> TRUE, val |-> FALSE]

Some(i) == [some |-> TRUE, idx |-> i]

None == [some |-> FALSE, idx |-> 0]

(***************************************************************************)
(* hivecs.rs: the prepared predicates.  A query holds a reference to its   *)
(* HiVec; the model holds the HiVec's value.                               *)
(***************************************************************************)
query_equals(h, item) == [kind |-> "eq", item |-> item, hiv |-> h]

query_range(h, range) == [kind |-> "range", range |-> range, hiv |-> h]

\* HiVec::get: Ret(x) for Some(&x), Panicked standing for None, on which the
\* callers' expect("Out of bounds") panics
get(h, i) == IF i < Len(h.table) THEN Ret(h.table[i + 1]) ELSE Panicked

\* hiv.layers[layer - 1][i]; either index out of bounds panics
layer_entry(h, layer, i) ==
    IF layer - 1 < Len(h.layers) /\ i < Len(h.layers[layer])
    THEN Ret(h.layers[layer][i + 1])
    ELSE Panicked

\* a variant of EqualsQuery::query_at with unwrap_or(false) for expect
EqualsQuery_query_at_lenient(q, i) ==
    LET g == get(q.hiv, i)
    IN  IF g.panic THEN Ret(FALSE) ELSE Ret(g.val = q.item)

EqualsQuery_query_at(q, i) ==
    LET g == get(q.hiv, i)
    IN  IF g.panic THEN Panicked ELSE Ret(g.val = q.item)

EqualsQuery_hiquery(q, layer, i) ==
    IF layer = 0 THEN EqualsQuery_query_at(q, i)
    ELSE LET e == layer_entry(q.hiv, layer, i)
         IN  IF e.panic THEN Panicked ELSE Ret(contains(e.val, q.item))

RangeQuery_query_at(q, i) ==
    LET g == get(q.hiv, i)
    IN  IF g.panic THEN Panicked ELSE Ret(contains(q.range, g.val))

\* a variant of RangeQuery::hiquery that answers layer 0 with the bulk test,
\* on the singleton range of the element
RangeQuery_hiquery_bulk0(q, layer, i) ==
    IF layer = 0
    THEN LET g == get(q.hiv, i)
         IN  IF g.panic THEN Panicked
             ELSE Ret(~isempty(intersect(singleton(g.val), q.range)))
    ELSE LET e == layer_entry(q.hiv, layer, i)
         IN  IF e.panic THEN Panicked
             ELSE Ret(~isempty(intersect(e.val, q.range)))

RangeQuery_hiquery(q, layer, i) ==
    IF layer = 0 THEN RangeQuery_query_at(q, i)
    ELSE LET e == layer_entry(q.hiv, layer, i)
         IN  IF e.panic THEN Panicked
             ELSE Ret(~isempty(intersect(e.val, q.range)))

(***************************************************************************)
(* hiqueries.rs: the HiQuery trait, AndQuery and OrQuery.                  *)
(***************************************************************************)
\* a && b and a || b over calls that may panic: b is evaluated only if needed
AndThen(a, b) == IF a.panic THEN Panicked ELSE IF a.val THEN b ELSE Ret(FALSE)

OrElse(a, b) == IF a.panic THEN Panicked ELSE IF a.val THEN Ret(TRUE) ELSE b

RECURSIVE length(_)
length(q) ==
    IF q.kind \in {"eq", "range"} THEN len(q.hiv) ELSE length(q.q1)

\* The const generics N and FANOUT of the query's type
RECURSIVE NOf(_)
NOf(q) == IF q.kind \in {"eq", "range"} THEN q.hiv.N ELSE NOf(q.q1)

RECURSIVE FanoutOf(_)
FanoutOf(q) == IF q.kind \in {"eq", "range"} THEN q.hiv.FANOUT ELSE FanoutOf(q.q1)

RECURSIVE query_at(_, _)
query_at(q, i) ==
    CASE q.kind = "eq"    -> EqualsQuery_query_at(q, i)
      [] q.kind = "range" -> RangeQuery_query_at(q, i)
      [] q.kind = "and"   -> AndThen(query_at(q.q1, i), query_at(q.q2, i))
      [] q.kind = "or"    -> OrElse(query_at(q.q1, i), query_at(q.q2, i))

RECURSIVE hiquery(_, _, _)
hiquery(q, layer, i) ==
    CASE q.kind = "eq"    -> EqualsQuery_hiquery(q, layer, i)
      [] q.kind = "range" -> RangeQuery_hiquery(q, layer, i)
      [] q.kind = "and"   -> AndThen(hiquery(q.q1, layer, i), hiquery(q.q2, layer, i))
      [] q.kind = "or"    -> OrElse(hiquery(q.q1, layer, i), hiquery(q.q2, layer, i))

\* and / or: assert_eq!(self.length(), other.length()), then the combinator
HiQuery_and(q, other) ==
    IF length(q) = length(other)
    THEN Ret([kind |-> "and", q1 |-> q, q2 |-> other])
    ELSE Panicked

HiQuery_or(q, other) ==
    IF length(q) = length(other)
    THEN Ret([kind |-> "or", q1 |-> q, q2 |-> other])
    ELSE Panicked

(***************************************************************************)
(* findnext.  The state of the call is [pc, i, res, probes, hq, steps]:    *)
(* pc is "loop" at the head of the outer while, "done" after a return and  *)
(* "panic" after a panic; probes lists the indices query_at was called     *)
(* with, hq the <<layer, j>> hiquery was called with, steps the `step`     *)
(* added to i after each miss.                                             *)
(***************************************************************************)
findnext_start(i) ==
    [pc |-> "loop", i |-> i, res |-> None, probes |-> <<>>, hq |-> <<>>,
     steps |-> <<>>]

\* a variant of the inner while that ascends while hiquery returns false
RECURSIVE ascend_skipping(_, _, _, _, _)
ascend_skipping(q, l, j, step, hq) ==
    IF l < NOf(q) /\ j % FanoutOf(q) = 0
    THEN LET r == hiquery(q, l, j)
             called == Append(hq, <<l, j>>)
         IN  IF r.panic THEN [panic |-> TRUE, step |-> step, hq |-> called]
             ELSE IF ~r.val
                  THEN ascend_skipping(q, l + 1, j \div FanoutOf(q),
                                       step * FanoutOf(q), called)
                  ELSE [panic |-> FALSE, step |-> step, hq |-> called]
    ELSE [panic |-> FALSE, step |-> step, hq |-> hq]

\* the inner while: l < N && j % FANOUT == 0 && self.hiquery(l, j)
RECURSIVE ascend(_, _, _, _, _)
ascend(q, l, j, step, hq) ==
    IF l < NOf(q) /\ j % FanoutOf(q) = 0
    THEN LET r == hiquery(q, l, j)
             called == Append(hq, <<l, j>>)
         IN  IF r.panic THEN [panic |-> TRUE, step |-> step, hq |-> called]
             ELSE IF r.val
                  THEN ascend(q, l + 1, j \div FanoutOf(q), step * FanoutOf(q), called)
                  ELSE [panic |-> FALSE, step |-> step, hq |-> called]
    ELSE [panic |-> FALSE, step |-> step, hq |-> hq]

\* one turn of the outer while
findnext_iter(q, st) ==
    IF ~(st.i < length(q)) THEN [st EXCEPT !.pc = "done", !.res = None]
    ELSE LET p == query_at(q, st.i)
             probed == Append(st.probes, st.i)
         IN  IF p.panic THEN [st EXCEPT !.pc = "panic", !.probes = probed]
             ELSE IF p.val
                  THEN [st EXCEPT !.pc = "done", !.res = Some(st.i), !.probes = probed]
                  ELSE LET a == ascend(q, 0, st.i, 1, st.hq)
                       IN  IF a.panic
                           THEN [st EXCEPT !.pc = "panic", !.probes = probed, !.hq = a.hq]
                           ELSE [st EXCEPT !.i = st.i + a.step, !.probes = probed,
                                           !.hq = a.hq, !.steps = Append(st.steps, a.step)]

RECURSIVE findnext_run(_, _)
findnext_run(q, st) ==
    IF st.pc # "loop" THEN st ELSE findnext_run(q, findnext_iter(q, st))

findnext(q, i) == findnext_run(q, findnext_start(i))

\* a variant of count's loop that resumes at j + 2
RECURSIVE count_loop_skip(_, _, _)
count_loop_skip(q, i, n) ==
    LET f == findnext(q, i)
    IN  IF f.pc = "panic" THEN [panic |-> TRUE, val |-> n]
        ELSE IF f.res.some THEN count_loop_skip(q, f.res.idx + 2, n + 1)
        ELSE [panic |-> FALSE, val |-> n]

\* count: while let Some(j) = self.findnext(i) { i = j + 1; n += 1 }
RECURSIVE count_loop(_, _, _)
count_loop(q, i, n) ==
    LET f == findnext(q, i)
    IN  IF f.pc = "panic" THEN [panic |-> TRUE, val |-> n]
        ELSE IF f.res.some THEN count_loop(q, f.res.idx + 1, n + 1)
        ELSE [panic |-> FALSE, val |-> n]

count(q) == count_loop(q, 0, 0)

\* iter() and HiQIter::next
iter(q) == [hq |-> q, i |-> 0]

HiQIter_next(it) ==
    LET f == findnext(it.hq, it.i)
    IN  IF f.pc = "panic" THEN [panic |-> TRUE, it |-> it, item |-> None]
        ELSE IF f.res.some
             THEN [panic |-> FALSE, it |-> [it EXCEPT !.i = f.res.idx + 1], item |-> f.res]
             ELSE [panic |-> FALSE, it |-> it, item |-> None]

\* Iterator::collect: next() until it returns None
RECURSIVE collect_from(_, _)
collect_from(it, acc) ==
    LET n == HiQIter_next(it)
    IN  IF n.panic THEN [panic |-> TRUE, val |-> acc]
        ELSE IF n.item.some THEN collect_from(n.it, Append(acc, n.item.idx))
        ELSE [panic |-> FALSE, val |-> acc]

collect(q) == collect_from(iter(q), <<>>)

(***************************************************************************)
(* lattices.rs: FreeL32 and FreeL64.  A value is its word, bit by bit: a   *)
(* function from the bit positions 0 .. w-1 to {0, 1}.                     *)
(***************************************************************************)
W32 == 32

W64 == 64

Word(w, S) == [k \in 0..(w - 1) |-> IF k \in S THEN 1 ELSE 0]

BitAnd(a, b) == [k \in DOMAIN a |-> a[k] * b[k]]

BitOr(a, b) == [k \in DOMAIN a |-> IF a[k] + b[k] >= 1 THEN 1 ELSE 0]

BitNot(a) == [k \in DOMAIN a |-> 1 - a[k]]

IsZero(a) == \A k \in DOMAIN a : a[k] = 0

FreeL_meet(a, b) == BitAnd(a, b)

FreeL_join(a, b) == BitOr(a, b)

FreeL_complement(a) == BitNot(a)

\* a variant of partial_cmp with the two difference words exchanged
FreeL_partial_cmp_swapped(a, b) ==
    LET i1 == BitAnd(BitNot(a), b)
        i2 == BitAnd(a, BitNot(b))
    IN  CASE IsZero(i1) /\ IsZero(i2) -> "Equal"
          [] IsZero(i1)               -> "Less"
          [] IsZero(i2)               -> "Greater"
          [] OTHER                    -> "None"

FreeL_partial_cmp(a, b) ==
    LET i1 == BitAnd(a, BitNot(b))
        i2 == BitAnd(BitNot(a), b)
    IN  CASE IsZero(i1) /\ IsZero(i2) -> "Equal"
          [] IsZero(i1)               -> "Less"
          [] IsZero(i2)               -> "Greater"
          [] OTHER                    -> "None"

\* TOP = !0 and BOT = 0
FreeL_TOP(w) == BitNot(Word(w, {}))

FreeL_BOT(w) == Word(w, {})

\* generator(i) = 1 << i, for i below the width
FreeL_generator(w, i) == Word(w, {i})

(***************************************************************************)
(* Inputs of the model.                                                    *)
(***************************************************************************)
Tables == UNION {[1..n -> Elems] : n \in 0..MaxLen}

Depths == 1..MaxN

Fanouts == 2..MaxFanout

Ranges == {LatticeRange_new(t, b) : t \in Elems, b \in Elems}

EqLeaves(h) == {query_equals(h, v) : v \in Elems}

RangeLeaves(h) == {query_range(h, r) : r \in Ranges}

Leaves(h) == EqLeaves(h) \cup RangeLeaves(h)

And2(x, y) == HiQuery_and(x, y).val

Or2(x, y) == HiQuery_or(x, y).val

\* and / or over leaves of both kinds, and nested combinators
Composites(h) ==
    UNION {{And2(query_equals(h, v), query_range(h, LatticeRange_new(v, 0))),
            Or2(query_range(h, LatticeRange_new(0, v)), query_equals(h, MaxElem)),
            And2(query_range(h, LatticeRange_new(v, 0)),
                 query_range(h, LatticeRange_new(MaxElem, v))),
            Or2(And2(query_equals(h, 0), query_range(h, LatticeRange_new(v, v))),
                query_equals(h, v)),
            And2(Or2(query_equals(h, 0), query_equals(h, v)),
                 query_range(h, LatticeRange_new(MaxElem, v)))} : v \in Elems}

Queries(h) == Leaves(h) \cup Composites(h)

\* HiVecs of other lengths, for combining queries of different length()
Others(h) == {HiVec_new(h.N, h.FANOUT, [k \in 1..n |-> 0]) : n \in 0..MaxLen}

\* the word patterns the lattice operations are applied to: the subsets of
\* a few low atoms and the top atom, TOP, and the two words of test_lattice
Atoms(w) == (0..(MaxAtoms - 1)) \cup {w - 1}

Patterns(w) ==
    {Word(w, S) : S \in SUBSET Atoms(w)}
    \cup {FreeL_TOP(w), Word(w, {0, 1, 2, 4, 7}), Word(w, {2, 4, 7, 9})}

RECURSIVE Pow(_, _)
Pow(b, e) == IF e = 0 THEN 1 ELSE b * Pow(b, e - 1)

\* the number of blocks of FANOUT^l elements a table of this length has
NumBlocks(h, l) == CeilDiv(len(h), Pow(h.FANOUT, l))

NoOp == [op |-> "none"]

NoLat == [op |-> "none", w |-> 0, a |-> <<>>, b |-> <<>>, c |-> <<>>, res |-> <<>>]

(***************************************************************************)
(* Spec: a HiVec and the calls made on it.  A call leaves its arguments    *)
(* and its result in lastop; Release drops them (and the query's borrow of *)
(* the HiVec), after which the next call is made.  A panic ends the run.   *)
(***************************************************************************)
Init ==
    /\ \E N \in Depths, F \in Fanouts, t \in Tables : hiv = HiVec_new(N, F, t)
    /\ status = "ok"
    /\ lastop = NoOp
    /\ fs = findnext_start(0)
    /\ lat = NoLat

Idle == status = "ok" /\ lastop.op = "none"

StatusOf(panic) == IF panic THEN "panicked" ELSE "ok"

Mutate ==
    /\ Idle
    /\ \E i \in 0..len(hiv), v \in Elems :
         LET r == mutate(hiv, i, v)
         IN  /\ hiv' = r.hiv
             /\ status' = StatusOf(r.panic)
             /\ lastop' = [op |-> "mutate", i |-> i, v |-> v, panic |-> r.panic]
    /\ UNCHANGED <<fs, lat>>

QueryAt ==
    /\ Idle
    /\ \E q \in Queries(hiv), i \in 0..(len(hiv) + 1) :
         LET r == query_at(q, i)
         IN  /\ status' = StatusOf(r.panic)
             /\ lastop' = [op |-> "query_at", q |-> q, i |-> i, res |-> r]
    /\ UNCHANGED <<hiv, fs, lat>>

HiQueryCall ==
    /\ Idle
    /\ \E q \in Queries(hiv), l \in 0..hiv.N :
       \E j \in 0..(NumBlocks(hiv, l) - 1) :
         LET r == hiquery(q, l, j)
         IN  /\ status' = StatusOf(r.panic)
             /\ lastop' = [op |-> "hiquery", q |-> q, layer |-> l, i |-> j, res |-> r]
    /\ UNCHANGED <<hiv, fs, lat>>

FindNext ==
    /\ Idle
    /\ \E q \in Queries(hiv), i \in 0..(len(hiv) + 1) :
         LET r == findnext(q, i)
         IN  /\ status' = StatusOf(r.pc = "panic")
             /\ lastop' = [op |-> "findnext", q |-> q, i |-> i, res |-> r]
    /\ UNCHANGED <<hiv, fs, lat>>

Count ==
    /\ Idle
    /\ \E q \in Queries(hiv) :
         LET r == count(q)
         IN  /\ status' = StatusOf(r.panic)
             /\ lastop' = [op |-> "count", q |-> q, res |-> r]
    /\ UNCHANGED <<hiv, fs, lat>>

Collect ==
    /\ Idle
    /\ \E q \in Queries(hiv) :
         LET r == collect(q)
         IN  /\ status' = StatusOf(r.panic)
             /\ lastop' = [op |-> "collect", q |-> q, res |-> r]
    /\ UNCHANGED <<hiv, fs, lat>>

Combine ==
    /\ Idle
    /\ \E o \in Others(hiv) \cup {hiv}, x \in EqLeaves(hiv), k \in {"and", "or"} :
         LET y == query_range(o, LatticeRange_new(MaxElem, 0))
             r == IF k = "and" THEN HiQuery_and(x, y) ELSE HiQuery_or(x, y)
         IN  /\ status' = StatusOf(r.panic)
             /\ lastop' = [op |-> k, q1 |-> x, q2 |-> y, res |-> r]
    /\ UNCHANGED <<hiv, fs, lat>>

Release ==
    /\ status = "ok"
    /\ lastop.op # "none"
    /\ lastop' = NoOp
    /\ UNCHANGED <<hiv, status, fs, lat>>

Next ==
    \/ Mutate
    \/ QueryAt
    \/ FindNext
    \/ Count
    \/ Collect
    \/ Combine
    \/ Release

Spec == Init /\ [][Next]_vars

(***************************************************************************)
(* SpecBulk: the bulk form of the queries on a HiVec as new built it.      *)
(***************************************************************************)
NextBulk ==
    \/ HiQueryCall
    \/ Release

SpecBulk == Init /\ [][NextBulk]_vars

(***************************************************************************)
(* SpecLattice: the FreeL32 / FreeL64 operations applied to words.         *)
(***************************************************************************)
InitLattice ==
    /\ \E w \in {W32, W64} : \E a \in Patterns(w), b \in Patterns(w), c \in Patterns(w) :
         lat = [op |-> "none", w |-> w, a |-> a, b |-> b, c |-> c, res |-> <<>>]
    /\ hiv = HiVec_new(1, 2, <<>>)
    /\ status = "ok"
    /\ lastop = NoOp
    /\ fs = findnext_start(0)

LatJoin ==
    /\ lat.op = "none"
    /\ lat' = [lat EXCEPT !.op = "join", !.res = FreeL_join(lat.a, lat.b)]
    /\ UNCHANGED <<hiv, status, lastop, fs>>

LatMeet ==
    /\ lat.op = "none"
    /\ lat' = [lat EXCEPT !.op = "meet", !.res = FreeL_meet(lat.a, lat.b)]
    /\ UNCHANGED <<hiv, status, lastop, fs>>

LatCmp ==
    /\ lat.op = "none"
    /\ lat' = [lat EXCEPT !.op = "partial_cmp", !.res = FreeL_partial_cmp(lat.a, lat.b)]
    /\ UNCHANGED <<hiv, status, lastop, fs>>

NextLattice == LatJoin \/ LatMeet \/ LatCmp

SpecLattice == InitLattice /\ [][NextLattice]_vars

(***************************************************************************)
(* SpecSkip: query_equals(42).findnext(0) on a HiVec<u32, 4, 4> of length  *)
(* 1024 whose only non-zero entry is 42 at index 733, one turn of the      *)
(* outer loop per step.                                                    *)
(***************************************************************************)
SkipTable == [k \in 1..1024 |-> IF k = 733 + 1 THEN 42 ELSE 0]

SkipQuery == query_equals(hiv, 42)

InitSkip ==
    /\ hiv = HiVec_new(4, 4, SkipTable)
    /\ status = "ok"
    /\ lastop = NoOp
    /\ fs = findnext_start(0)
    /\ lat = NoLat

SkipStep ==
    /\ fs.pc = "loop"
    /\ fs' = findnext_iter(SkipQuery, fs)
    /\ UNCHANGED <<hiv, status, lastop, lat>>

NextSkip == SkipStep

SpecSkip == InitSkip /\ [][NextSkip]_vars

(***************************************************************************)
(* Helpers of the properties.                                              *)
(***************************************************************************)
\* query_at(k) returns true
Holds(q, k) == query_at(q, k) = Ret(TRUE)

\* the indices of the table that satisfy q
Matches(q) == {k \in 0..(length(q) - 1) : Holds(q, k)}

RECURSIVE fold_join(_)
fold_join(c) == IF Len(c) = 1 THEN c[1] ELSE join(fold_join(SubSeq(c, 1, Len(c) - 1)), c[Len(c)])

\* the summary the pyramid property asks of a chunk of table entries
Summary(chunk) == [top |-> fold_join(chunk), bottom |-> reduce_meet(chunk)]

\* entry b (0-based) of layer k (0-based) is the fold of its children
EntryFolded(h, k, b) ==
    IF k = 0
    THEN /\ h.layers[1][b + 1] = Summary(chunks(h.table, h.FANOUT)[b + 1])
         /\ h.layers[1][b + 1] = fold_expandby(chunks(h.table, h.FANOUT)[b + 1])
    ELSE h.layers[k + 1][b + 1] = reduce_unite(chunks(h.layers[k], h.FANOUT)[b + 1])

\* q with every summary of every layer of its HiVec replaced by r
RECURSIVE WithLayers(_, _)
WithLayers(q, r) ==
    IF q.kind \in {"eq", "range"}
    THEN [q EXCEPT !.hiv.layers =
            [k \in 1..Len(q.hiv.layers) |-> [b \in 1..Len(q.hiv.layers[k]) |-> r]]]
    ELSE [q EXCEPT !.q1 = WithLayers(q.q1, r), !.q2 = WithLayers(q.q2, r)]

Scrambles == {singleton(0), singleton(MaxElem)}

\* the strictly increasing sequence of the elements of a set of numbers
RECURSIVE Sorted(_)
Sorted(S) ==
    IF S = {} THEN <<>>
    ELSE LET m == CHOOSE x \in S : \A y \in S : x >= y
         IN  Append(Sorted(S \ {m}), m)

(***************************************************************************)
(* The claims.                                                             *)
(***************************************************************************)

\* C1: findnext(i) returns Some(j) only for the least j >= i, j < length(),
\* with query_at(j) true, and None only when no k in [i, length()) has
\* query_at(k) true.
C1_FindNextLeast ==
    lastop.op = "findnext" =>
        LET q == lastop.q
            i == lastop.i
            r == lastop.res
        IN  /\ r.pc = "done"
            /\ r.res.some =>
                 /\ r.res.idx >= i
                 /\ r.res.idx < length(q)
                 /\ Holds(q, r.res.idx)
                 /\ \A k \in i..(r.res.idx - 1) : ~Holds(q, k)
            /\ ~r.res.some => \A k \in i..(length(q) - 1) : ~Holds(q, k)

\* a findnext on a combinator that passed at least two misses before its match
C1_Witness ==
    /\ lastop.op = "findnext"
    /\ lastop.q.kind \in {"and", "or"}
    /\ hiv.N = 2
    /\ lastop.res.res.some
    /\ lastop.res.res.idx >= lastop.i + 2

\* C2: after new on a non-empty table every layer-0 entry has top the join
\* and bottom the meet of its chunk (the expandby-fold of the chunk), and
\* every entry of a layer k >= 1 is the unite-fold of its children.
C2_PyramidAfterNew ==
    len(hiv) >= 1 =>
        \A k \in 0..(Len(hiv.layers) - 1) :
            \A b \in 0..(Len(hiv.layers[k + 1]) - 1) : EntryFolded(hiv, k, b)

\* C3: mutate(i, f) with i < len() returns without a panic, table[i] holds
\* the value f produced, and every summary whose block contains i, at every
\* layer, is the fold of its current children.
C3_MutateRepairs ==
    (lastop.op = "mutate" /\ lastop.i < len(hiv)) =>
        /\ ~lastop.panic
        /\ hiv.table[lastop.i + 1] = lastop.v
        /\ \A k \in 0..(Len(hiv.layers) - 1) :
             EntryFolded(hiv, k, lastop.i \div Pow(hiv.FANOUT, k + 1))

\* C4: bulk soundness: at a layer L in 1..N, if some element of block j has
\* query_at true, hiquery(L, j) returns true.
C4_BulkSound ==
    (lastop.op = "hiquery" /\ lastop.layer >= 1) =>
        LET q == lastop.q
            size == Pow(hiv.FANOUT, lastop.layer)
            block == {k \in 0..(len(hiv) - 1) : k \div size = lastop.i}
        IN  (\E k \in block : Holds(q, k)) => lastop.res = Ret(TRUE)

\* C5: query_range(r).query_at(i) is true exactly when
\* r.bottom <= table[i] <= r.top, and the and-combinator is the pointwise
\* conjunction.  (Stated for the ranges with bottom <= top, the intervals
\* the claim speaks of.)
C5_RangePoint ==
    (lastop.op = "query_at" /\ lastop.i < len(hiv)) =>
        LET q == lastop.q
            x == hiv.table[lastop.i + 1]
        IN  /\ (q.kind = "range" /\ q.range.bottom <= q.range.top) =>
                 lastop.res = Ret(q.range.bottom <= x /\ x <= q.range.top)
            /\ q.kind = "and" =>
                 lastop.res = Ret(Holds(q.q1, lastop.i) /\ Holds(q.q2, lastop.i))

\* C6: iter() yields exactly the indices i < length() with query_at(i) true,
\* each once and in increasing order; count() is the number of them; on a
\* two-valued table the counts of the two values add up to len().
C6_IterIsCount ==
    /\ lastop.op = "collect" =>
         /\ ~lastop.res.panic
         /\ lastop.res.val = Sorted(Matches(lastop.q))
         /\ count(lastop.q) = Ret(Len(lastop.res.val))
    /\ lastop.op = "count" =>
         /\ lastop.res = Ret(Cardinality(Matches(lastop.q)))
         /\ (\A k \in 1..len(hiv) : hiv.table[k] \in {0, 1}) =>
              count(query_equals(hiv, 1)).val + count(query_equals(hiv, 0)).val
                = len(hiv)

\* an iteration that yielded two indices with a miss between them
C6_Witness ==
    /\ lastop.op = "collect"
    /\ Len(lastop.res.val) >= 2
    /\ lastop.res.val[2] >= lastop.res.val[1] + 2

\* C7: on the HiVec<u32,4,4> of length 1024 with 42 at index 733 only,
\* query_equals(42).findnext(0) returns Some(733) after a number of hiquery
\* calls bounded by a small constant (8 here) times log_4(1024) = 5.
C7_SkipsBlocks ==
    fs.pc = "done" => (fs.res = Some(733) /\ Len(fs.hq) <= 8 * 5)

\* C8: FreeL32 / FreeL64 join and meet are commutative, associative,
\* idempotent and absorbing; partial_cmp is Less or Equal exactly when
\* a.join(b) = b and a.meet(b) = a, and None when neither word is a bit
\* subset of the other; TOP and BOT are the identities and the absorbers.
C8_FreeLattice ==
    lat.w # 0 =>
        LET a == lat.a
            b == lat.b
            c == lat.c
            J(x, y) == FreeL_join(x, y)
            M(x, y) == FreeL_meet(x, y)
            Subset(x, y) == \A k \in DOMAIN x : x[k] <= y[k]
            cmp == FreeL_partial_cmp(a, b)
        IN  /\ J(a, b) = J(b, a) /\ M(a, b) = M(b, a)
            /\ J(J(a, b), c) = J(a, J(b, c)) /\ M(M(a, b), c) = M(a, M(b, c))
            /\ J(a, a) = a /\ M(a, a) = a
            /\ J(a, M(a, b)) = a /\ M(a, J(a, b)) = a
            /\ (cmp \in {"Less", "Equal"}) <=> (J(a, b) = b /\ M(a, b) = a)
            /\ (cmp = "Less") => a # b
            /\ (cmp = "Equal") <=> a = b
            /\ (cmp = "None") <=> (~Subset(a, b) /\ ~Subset(b, a))
            /\ M(a, FreeL_TOP(lat.w)) = a /\ J(a, FreeL_BOT(lat.w)) = a
            /\ J(a, FreeL_TOP(lat.w)) = FreeL_TOP(lat.w)
            /\ M(a, FreeL_BOT(lat.w)) = FreeL_BOT(lat.w)

\* a join of two incomparable words, which is neither of them
C8_Witness ==
    /\ lat.op = "join"
    /\ FreeL_partial_cmp(lat.a, lat.b) = "None"
    /\ lat.res # lat.a
    /\ lat.res # lat.b

\* C9: query_at(i) with i >= length() panics for every shipped query; and /
\* or of two queries of different length() panic; findnext(i) with
\* i >= length() returns None without a panic and without a query_at call.
C9_OutOfRange ==
    /\ lastop.op = "query_at" => (lastop.res.panic <=> lastop.i >= length(lastop.q))
    /\ lastop.op \in {"and", "or"} =>
         (lastop.res.panic <=> length(lastop.q1) # length(lastop.q2))
    /\ (lastop.op = "findnext" /\ lastop.i >= length(lastop.q)) =>
         /\ lastop.res.pc = "done"
         /\ lastop.res.res = None
         /\ lastop.res.probes = <<>>

\* a combinator's query_at past the end of a non-empty table, which panicked
C9_Witness ==
    /\ lastop.op = "query_at"
    /\ lastop.q.kind = "or"
    /\ len(hiv) >= 1
    /\ lastop.i >= length(lastop.q)
    /\ status = "panicked"

====
